---- MODULE Spec2Model ----
(***************************************************************************)
(* Model of backend/cfd_server.py: the CFDServer run-state tracker, its    *)
(* result cache / case record, the asynchronous calculation task and the   *)
(* request handlers that read and write them.                              *)
(*                                                                         *)
(* asyncio runs every coroutine on one thread: the code between two        *)
(* suspension points (await on an external process) is one atomic step.    *)
(* Each action below is one such segment.                                  *)
(*                                                                         *)
(* Wind directions are held in tenths of a degree (455 is 45.5 degrees),   *)
(* sampling heights in centimetres.  Python's None is NONE for a           *)
(* direction and NoCase for a case directory.                              *)
(***************************************************************************)
EXTENDS Integers, Sequences, FiniteSets, Bags, TLC

\* ----------------------------------------------------------------- bounds
\* calculation tasks and suspended extracting handlers in flight together
MaxTasks == 2
\* the last value of the second-resolution timestamp of a case name
MaxClock == 1

\* ------------------------------------------------------------ input sets
\* wind.direction of a POST /calculate body, in tenths of a degree
WindDirections == {0, 450}
\* wind.speed of a POST /calculate body, in m/s
WindSpeeds == {4}
\* settings.iterations of a POST /calculate body
Budgets == {45}
\* "Time = N" values simpleFoam writes to its log
LogIters == {13}
\* {angle} of GET /result/{angle}: whole degrees
Angles == {0, 45}
\* "height" of a POST /resample body, in centimetres
ResampleHeights == {175}

NONE == -1
NoCase == << >>

\* int(direction)
IntDeg(d) == d \div 10
\* the dictionary key an integer number of degrees is
DegKey(a) == a * 10

\* every key the result cache and the case record can hold
Keys == WindDirections \cup {DegKey(a) : a \in Angles}

\* f"case_{timestamp}_{int(direction)}deg" as <<timestamp, degrees>>
CaseName(ts, d) == <<ts, IntDeg(d)>>
CaseNames == {CaseName(ts, d) : ts \in 0..MaxClock, d \in WindDirections}

\* buildings.features of a POST /calculate body: geometry type and number
\* of coordinates of the outer ring of each feature
Feature(ty, n) == [type |-> ty, ncoords |-> n]
BuildingInputs ==
    { << >>,
      << Feature("Point", 1), Feature("Polygon", 2) >>,
      << Feature("Polygon", 4) >> }

\* ------------------------------------------------------- python dicts
EmptyDict == [k \in {} |-> 0]
Put(dict, k, v) == [x \in (DOMAIN dict) \cup {k} |-> IF x = k THEN v ELSE dict[x]]

\* ---------------------------------------------- IEEE-754 double arithmetic
\* Python's float is the IEEE-754 double: 53 significant bits, round to
\* nearest, ties to even.  A positive double is [sig, e]: its value is
\* sig * 2^(e - 53), where sig is a natural number of 54 to 61 bits held as
\* three limbs <<high, middle, low>> in base 2^21, and only its leading 53
\* bits are non-zero.  The operators are exact for int operands in 1..511,
\* which covers Budgets and LogIters.
Limb == 2^21

\* propagate the carries of a limb triple
Carry3(a0, a1, a2) ==
    LET b1 == a1 + (a2 \div Limb)
    IN  <<a0 + (b1 \div Limb), b1 % Limb, a2 % Limb>>

\* the e with 2^e <= x/y < 2^(e+1)
Exponent(x, y) ==
    CHOOSE k \in -9..9 :
        IF k >= 0 THEN y * 2^k <= x /\ x < y * 2^(k + 1)
        ELSE y <= x * 2^(-k) /\ x * 2^(-k) < 2 * y

\* number of bits of a natural below 2^30
BitLen(n) == CHOOSE k \in 0..30 : (k = 0 \/ 2^(k - 1) <= n) /\ n < 2^k

\* x / y  (true division of two positive ints): the first 54 bits of the
\* quotient by long division, then rounded to 53
DoubleDiv(x, y) ==
    LET e   == Exponent(x, y)
        n0  == x * 2^(11 - e)
        q0  == n0 \div y
        r0  == n0 % y
        q1  == (r0 * Limb) \div y
        r1  == (r0 * Limb) % y
        q2  == (r1 * Limb) \div y
        r2  == (r1 * Limb) % y
        g   == q2 % 2
        lsb == (q2 \div 2) % 2
        up  == g = 1 /\ (r2 # 0 \/ lsb = 1)
    IN  [sig |-> Carry3(q0, q1, q2 - g + (IF up THEN 2 ELSE 0)), e |-> e]

\* d * k for a small positive int k: the exact product, then rounded to 53 bits
DoubleMulInt(d, k) ==
    LET p    == Carry3(d.sig[1] * k, d.sig[2] * k, d.sig[3] * k)
        drop == 42 + BitLen(p[1]) - 53
        low  == p[3] % 2^drop
        g    == low \div 2^(drop - 1)
        rest == low % 2^(drop - 1)
        lsb  == (p[3] \div 2^drop) % 2
        up   == g = 1 /\ (rest # 0 \/ lsb = 1)
    IN  [sig |-> Carry3(p[1], p[2], p[3] - low + (IF up THEN 2^drop ELSE 0)),
         e |-> d.e]

\* int(d): the bits of sig above the binary point
DoubleTrunc(d) == IF 11 - d.e > 30 THEN 0 ELSE d.sig[1] \div 2^(11 - d.e)

Min(a, b) == IF a <= b THEN a ELSE b

\* 45 + int((iteration / total) * 45)
cfd_progress(iteration, total) ==
    45 + DoubleTrunc(DoubleMulInt(DoubleDiv(iteration, total), 45))


\* ------------------------------------------------------------------ state
VARIABLES
    status,              \* self.status: the RunStatus dict
    results,             \* self.results: direction -> result
    case_dirs,           \* self.case_dirs: direction -> case directory
    current_case,        \* self.current_case
    current_case_dir,    \* self.current_case_dir
    current_iterations,  \* self.current_iterations
    tasks,               \* the bag of coroutines in flight: calculation tasks
                         \* (created, or suspended on an external process) and
                         \* handlers suspended in _extract_results
    fs,                  \* the case directories under CFD_DIR
    clock,               \* datetime.now() to the second
    last                 \* the step just taken: the handler or task segment,
                         \* its HTTP response, the process it spawned

vars == <<status, results, case_dirs, current_case, current_case_dir,
          current_iterations, tasks, fs, clock, last>>

\* a message is a tuple: its text, then the numbers formatted into it.  The
\* Russian texts of the source are written in English: "Stopped" for
\* "Остановлено", "Done" for "Готово", "CFD..." for "Расчёт CFD...",
\* "Post-processing..." for "Обработка результатов...".
StatusRec(s, p, m) == [status |-> s, progress |-> p, message |-> m]
IdleStatus == StatusRec("idle", 0, <<"">>)

\* a coroutine: its kind ("calc", "get_result", "resample"), the await it is
\* suspended on ("start": created by create_task and not yet run), and its
\* local variables
Task(kind, pc, direction, case_dir, buildings, iterations, speed, height) ==
    [kind |-> kind, pc |-> pc, direction |-> direction, case_dir |-> case_dir,
     buildings |-> buildings, iterations |-> iterations, speed |-> speed,
     height |-> height]

InFlight == BagToSet(tasks)
Spawn(tk) == tasks (+) SetToBag({tk})
Ended(tk) == tasks (-) SetToBag({tk})
Moved(tk, tk2) == (tasks (-) SetToBag({tk})) (+) SetToBag({tk2})

\* a case directory on disk: created, case files written by _generate_case,
\* numbered output-time subdirectories present, last "Time = N" of
\* log.simpleFoam (0: no log file or no such line)
NoDir == [exists |-> FALSE, generated |-> FALSE, timeDirs |-> FALSE, log |-> 0]

\* last: the operation, its request arguments, the HTTP status it answers
\* (0: no answer yet, or not a request), the response body or the segment
\* report, and the external process it started
Label(op, arg, code, body, spawned) ==
    [op |-> op, arg |-> arg, code |-> code, body |-> body, spawned |-> spawned]
NoArg == [none |-> TRUE]

\* what a segment of a coroutine reports in last.body
Seg(tk, step, outcome) ==
    [kind |-> tk.kind, step |-> step, outcome |-> outcome,
     direction |-> tk.direction, case_dir |-> tk.case_dir]

\* self.current_iterations = 400 of __init__
DefaultIterations == 400
\* the wind speed get_result and resample fall back to: 4.0
FallbackSpeed == 4
\* sample_height=1.75 of _extract_results, in centimetres
DefaultSampleHeight == 175

Init ==
    /\ status = IdleStatus
    /\ results = EmptyDict
    /\ case_dirs = EmptyDict
    /\ current_case = NONE
    /\ current_case_dir = NoCase
    /\ current_iterations = DefaultIterations
    /\ tasks = EmptyBag
    /\ fs = [c \in CaseNames |-> NoDir]
    /\ clock = 0
    /\ last = Label("init", NoArg, 0, NoArg, "none")

\* building_list accepting a polygon of two coordinates
building_list_from_two(features) ==
    SelectSeq(features, LAMBDA f : f.type = "Polygon" /\ f.ncoords >= 2)

\* ------------------------------------------------------- _generate_case
\* building_list: the Polygon features with at least 3 coordinates
building_list(features) ==
    SelectSeq(features, LAMBDA f : f.type = "Polygon" /\ f.ncoords >= 3)

\* len(all_x): one entry per coordinate of every building
RECURSIVE all_x_len(_)
all_x_len(bl) == IF bl = << >> THEN 0 ELSE Head(bl).ncoords + all_x_len(Tail(bl))

\* the outcome of _generate_case on the case directory: os.makedirs first,
\* then "No buildings found" is raised before any file is written, or
\* metadata.json, buildings.stl and the dictionaries are all written
generate_case(dir, buildings) ==
    IF all_x_len(building_list(buildings)) = 0
    THEN [raised |-> "No buildings found",
          dir |-> [dir EXCEPT !.exists = TRUE]]
    ELSE [raised |-> "",
          dir |-> [dir EXCEPT !.exists = TRUE, !.generated = TRUE]]

\* ----------------------------------------------------- _extract_results
\* the part of _extract_results before it awaits postProcess: the exception
\* text it raises, or "" when it goes on to start postProcess
extract_begin(dir) ==
    IF ~dir.exists THEN "FileNotFoundError"
    ELSE IF ~dir.timeDirs THEN "No time directories found"
    ELSE ""

\* how the part after postProcess can end for a case directory: it looks
\* for the zSlice.vtk postProcess wrote under the directory and no longer
\* for the output-time directories
FailedExtracts == {"VTK result not found", "No points in result"}
ExtractOutcomes(dir) ==
    FailedExtracts \cup (IF dir.exists THEN {"ok"} ELSE {})

\* the dict _extract_results returns
extract_result(case_dir, direction, speed, sample_height) ==
    [wind_direction |-> direction, wind_speed |-> speed,
     sample_height |-> sample_height, case_dir |-> case_dir]

\* POST /calculate refusing a second calculation while one is running
calculate_guarded(d, sp, b, n) ==
    IF status.status = "running"
    THEN /\ last' = Label("calculate",
                          [direction |-> d, speed |-> sp, buildings |-> b, iterations |-> n],
                          409, [error |-> "Calculation already running"], "none")
         /\ UNCHANGED <<status, results, case_dirs, current_case, current_case_dir,
                        current_iterations, tasks, fs, clock>>
    ELSE /\ BagCardinality(tasks) < MaxTasks
         /\ tasks' = Spawn(Task("calc", "start", d, NoCase, b, n, sp, 0))
         /\ last' = Label("calculate",
                          [direction |-> d, speed |-> sp, buildings |-> b, iterations |-> n],
                          200, [status |-> "started"], "none")
         /\ UNCHANGED <<status, results, case_dirs, current_case, current_case_dir,
                        current_iterations, fs, clock>>

\* --------------------------------------------------------------- handlers
\* POST /calculate
calculate(d, sp, b, n) ==
    /\ BagCardinality(tasks) < MaxTasks
    /\ tasks' = Spawn(Task("calc", "start", d, NoCase, b, n, sp, 0))
    /\ last' = Label("calculate",
                     [direction |-> d, speed |-> sp, buildings |-> b, iterations |-> n],
                     200, [status |-> "started"], "none")
    /\ UNCHANGED <<status, results, case_dirs, current_case, current_case_dir,
                   current_iterations, fs, clock>>

\* POST /stop cancelling the tasks in flight
stop_cancels ==
    /\ status' = StatusRec("stopped", 0, <<"Stopped">>)
    /\ tasks' = EmptyBag
    /\ last' = Label("stop", NoArg, 200, [status |-> "ok"], "none")
    /\ UNCHANGED <<results, case_dirs, current_case, current_case_dir,
                   current_iterations, fs, clock>>

\* POST /stop
stop ==
    /\ status' = StatusRec("stopped", 0, <<"Stopped">>)
    /\ last' = Label("stop", NoArg, 200, [status |-> "ok"], "none")
    /\ UNCHANGED <<results, case_dirs, current_case, current_case_dir,
                   current_iterations, tasks, fs, clock>>

\* POST /cleanup leaving the run status as it is
cleanup_keeps_status ==
    /\ results' = EmptyDict
    /\ case_dirs' = EmptyDict
    /\ current_case' = NONE
    /\ fs' = [c \in CaseNames |-> NoDir]
    /\ last' = Label("cleanup", NoArg, 200,
                     [status |-> "ok",
                      deleted |-> Cardinality({c \in CaseNames : fs[c].exists})],
                     "none")
    /\ UNCHANGED <<status, current_case_dir, current_iterations, tasks, clock>>

\* POST /cleanup
cleanup ==
    /\ results' = EmptyDict
    /\ case_dirs' = EmptyDict
    /\ current_case' = NONE
    /\ status' = IdleStatus
    /\ fs' = [c \in CaseNames |-> NoDir]
    /\ last' = Label("cleanup", NoArg, 200,
                     [status |-> "ok",
                      deleted |-> Cardinality({c \in CaseNames : fs[c].exists})],
                     "none")
    /\ UNCHANGED <<current_case_dir, current_iterations, tasks, clock>>

\* _get_current_iteration
get_current_iteration ==
    IF current_case_dir = NoCase THEN 0
    ELSE IF ~fs[current_case_dir].exists THEN 0
    ELSE fs[current_case_dir].log

\* the refined progress without its upper limit
status_body_uncapped ==
    LET iteration == get_current_iteration
        total     == current_iterations
    IN  IF status.status = "running" /\ current_case_dir # NoCase /\ iteration > 0
        THEN [status |-> status.status,
              progress |-> cfd_progress(iteration, total),
              message |-> <<"CFD...", iteration, total>>,
              has_iteration |-> TRUE,
              iteration |-> iteration, total_iterations |-> total]
        ELSE [status |-> status.status, progress |-> status.progress,
              message |-> status.message, has_iteration |-> FALSE,
              iteration |-> 0, total_iterations |-> 0]

\* the body GET /status answers with
status_body ==
    LET iteration == get_current_iteration
        total     == current_iterations
    IN  IF status.status = "running" /\ current_case_dir # NoCase /\ iteration > 0
        THEN [status |-> status.status,
              progress |-> Min(cfd_progress(iteration, total), 89),
              message |-> <<"CFD...", iteration, total>>,
              has_iteration |-> TRUE,
              iteration |-> iteration, total_iterations |-> total]
        ELSE [status |-> status.status, progress |-> status.progress,
              message |-> status.message, has_iteration |-> FALSE,
              iteration |-> 0, total_iterations |-> 0]

\* GET /status
get_status ==
    /\ last' = Label("get_status", NoArg, 200, status_body, "none")
    /\ UNCHANGED <<status, results, case_dirs, current_case, current_case_dir,
                   current_iterations, tasks, fs, clock>>

\* the except branch recording the message and nothing else
task_failed_stays_running(tk, seg, msg) ==
    /\ current_case_dir' = NoCase
    /\ status' = [status EXCEPT !.message = <<msg>>]
    /\ tasks' = Ended(tk)
    /\ last' = Label("_run_calculation", NoArg, 0, seg, "none")

\* the except branch leaving the active case directory in place
task_failed_keeps_case_dir(tk, seg, msg) ==
    /\ current_case_dir' = current_case_dir
    /\ status' = StatusRec("error", 0, <<msg>>)
    /\ tasks' = Ended(tk)
    /\ last' = Label("_run_calculation", NoArg, 0, seg, "none")

\* ------------------------------------------------------ _run_calculation
\* the except branch: lines 328-333
task_failed(tk, seg, msg) ==
    /\ current_case_dir' = NoCase
    /\ status' = StatusRec("error", 0, <<msg>>)
    /\ tasks' = Ended(tk)
    /\ last' = Label("_run_calculation", NoArg, 0, seg, "none")

\* from the start of the task to the await on blockMesh
run_calculation_start(tk) ==
    LET c   == CaseName(clock, tk.direction)
        gen == generate_case(fs[c], tk.buildings)
        run == [tk EXCEPT !.case_dir = c, !.buildings = << >>]
    IN  /\ tk.kind = "calc" /\ tk.pc = "start"
        /\ current_iterations' = tk.iterations
        /\ fs' = [fs EXCEPT ![c] = gen.dir]
        /\ IF gen.raised # ""
           THEN task_failed(tk, Seg(run, "generate", "error"), gen.raised)
           ELSE /\ current_case_dir' = c
                /\ status' = StatusRec("running", 20, <<"blockMesh...">>)
                /\ tasks' = Moved(tk, [run EXCEPT !.pc = "blockMesh"])
                /\ last' = Label("_run_calculation", NoArg, 0, Seg(run, "generate", "continue"),
                                 "blockMesh")
        /\ UNCHANGED <<results, case_dirs, current_case, clock>>

\* blockMesh has ended: up to the await on snappyHexMesh
run_calculation_meshed(tk) ==
    /\ tk.kind = "calc" /\ tk.pc = "blockMesh"
    /\ status' = [status EXCEPT !.progress = 30, !.message = <<"snappyHexMesh...">>]
    /\ tasks' = Moved(tk, [tk EXCEPT !.pc = "snappyHexMesh"])
    /\ last' = Label("_run_calculation", NoArg, 0, Seg(tk, "blockMesh", "continue"),
                     "snappyHexMesh")
    /\ UNCHANGED <<results, case_dirs, current_case, current_case_dir,
                   current_iterations, fs, clock>>

\* snappyHexMesh has ended: up to the await on simpleFoam, whose shell
\* redirection truncates log.simpleFoam when the directory is there
run_calculation_snapped(tk) ==
    LET c == tk.case_dir
    IN  /\ tk.kind = "calc" /\ tk.pc = "snappyHexMesh"
        /\ status' = [status EXCEPT !.progress = 45, !.message = <<"CFD...">>]
        /\ tasks' = Moved(tk, [tk EXCEPT !.pc = "simpleFoam"])
        /\ fs' = IF fs[c].exists THEN [fs EXCEPT ![c].log = 0] ELSE fs
        /\ last' = Label("_run_calculation", NoArg, 0, Seg(tk, "snappyHexMesh", "continue"),
                         "simpleFoam")
        /\ UNCHANGED <<results, case_dirs, current_case, current_case_dir,
                       current_iterations, clock>>

\* simpleFoam, running in the task's case directory, writes "Time = n" to its
\* log (never beyond endTime, the iteration budget) and may write an
\* output-time directory
simpleFoam_writes(tk, n, w) ==
    LET c == tk.case_dir
    IN  /\ tk.kind = "calc" /\ tk.pc = "simpleFoam"
        /\ fs[c].exists
        /\ n > fs[c].log /\ n <= tk.iterations
        /\ fs' = [fs EXCEPT ![c].log = n, ![c].timeDirs = @ \/ w]
        /\ last' = Label("simpleFoam", NoArg, 0, [iteration |-> n], "none")
        /\ UNCHANGED <<status, results, case_dirs, current_case, current_case_dir,
                       current_iterations, tasks, clock>>

\* postProcess, started in a case directory that POST /cleanup has removed
\* since, writes its sampled surface: the output directories are made anew,
\* so the case directory is there again, holding nothing but that output.
\* Spec leaves this step of the environment out; SpecCleanup has it.
postProcess_writes(tk) ==
    LET c == tk.case_dir
    IN  /\ tk.pc = "postProcess"
        /\ ~fs[c].exists
        /\ fs' = [fs EXCEPT ![c] = [NoDir EXCEPT !.exists = TRUE]]
        /\ last' = Label("postProcess", NoArg, 0, [case_dir |-> c], "none")
        /\ UNCHANGED <<status, results, case_dirs, current_case, current_case_dir,
                       current_iterations, tasks, clock>>

\* simpleFoam has ended: progress 90, then _extract_results up to its await
\* on postProcess
run_calculation_solved(tk) ==
    LET exc == extract_begin(fs[tk.case_dir])
        run == [tk EXCEPT !.height = DefaultSampleHeight]
    IN  /\ tk.kind = "calc" /\ tk.pc = "simpleFoam"
        /\ IF exc # ""
           THEN task_failed(tk, Seg(tk, "simpleFoam", "error"), exc)
           ELSE /\ status' = [status EXCEPT !.progress = 90,
                                            !.message = <<"Post-processing...">>]
                /\ tasks' = Moved(tk, [run EXCEPT !.pc = "postProcess"])
                /\ last' = Label("_run_calculation", NoArg, 0,
                                 Seg(tk, "simpleFoam", "continue"), "postProcess")
                /\ UNCHANGED current_case_dir
        /\ UNCHANGED <<results, case_dirs, current_case, current_iterations, fs, clock>>

\* ------------------------------------------------------------- claims
\* the updates of lines 320-325 with one of them forgotten
task_completed_forgets_case_dir(tk, result) ==
    /\ results' = Put(results, tk.direction, result)
    /\ case_dirs' = case_dirs
    /\ current_case' = tk.direction
    /\ current_case_dir' = NoCase
    /\ status' = StatusRec("completed", 100, <<"Done">>)
    /\ tasks' = Ended(tk)
    /\ last' = Label("_run_calculation", NoArg, 0, Seg(tk, "postProcess", "completed"), "none")

\* lines 320-325
task_completed(tk, result) ==
    /\ results' = Put(results, tk.direction, result)
    /\ case_dirs' = Put(case_dirs, tk.direction, tk.case_dir)
    /\ current_case' = tk.direction
    /\ current_case_dir' = NoCase
    /\ status' = StatusRec("completed", 100, <<"Done">>)
    /\ tasks' = Ended(tk)
    /\ last' = Label("_run_calculation", NoArg, 0, Seg(tk, "postProcess", "completed"), "none")

\* postProcess has ended: the rest of _extract_results, then lines 320-325
run_calculation_extracted(tk, outcome) ==
    /\ tk.kind = "calc" /\ tk.pc = "postProcess"
    /\ outcome \in ExtractOutcomes(fs[tk.case_dir])
    /\ IF outcome = "ok"
       THEN task_completed(tk, extract_result(tk.case_dir, tk.direction,
                                              tk.speed, tk.height))
       ELSE /\ task_failed(tk, Seg(tk, "postProcess", "error"), outcome)
            /\ UNCHANGED <<results, case_dirs, current_case>>
    /\ UNCHANGED <<current_iterations, fs, clock>>

\* a cached result consuming whatever the run status is
return_cached_always_resets(arg, key) ==
    /\ status' = IdleStatus
    /\ last' = Label("get_result", arg, 200,
                     [cached |-> TRUE, result |-> results[key]], "none")
    /\ UNCHANGED <<results, case_dirs, current_case, current_case_dir,
                   current_iterations, tasks, fs, clock>>

\* ------------------------------------------------- get_result, resample
\* a cached result is returned; a completed run is consumed
return_cached(arg, key) ==
    /\ status' = IF status.status = "completed" THEN IdleStatus ELSE status
    /\ last' = Label("get_result", arg, 200,
                     [cached |-> TRUE, result |-> results[key]], "none")
    /\ UNCHANGED <<results, case_dirs, current_case, current_case_dir,
                   current_iterations, tasks, fs, clock>>

\* a handler answers without touching the state
respond(op, arg, code, msg) ==
    /\ last' = Label(op, arg, code, [error |-> msg], "none")
    /\ UNCHANGED <<status, results, case_dirs, current_case, current_case_dir,
                   current_iterations, tasks, fs, clock>>

\* a handler calls _extract_results: it raises at once (answered 500), or
\* the handler is suspended on postProcess
start_extract(op, arg, key, c, speed, height) ==
    LET exc == extract_begin(fs[c])
    IN  IF exc # "" THEN respond(op, arg, 500, exc)
        ELSE /\ BagCardinality(tasks) < MaxTasks
             /\ tasks' = Spawn(Task(op, "postProcess", key, c, << >>, 0, speed, height))
             /\ last' = Label(op, arg, 0, [pending |-> TRUE], "postProcess")
             /\ UNCHANGED <<status, results, case_dirs, current_case, current_case_dir,
                            current_iterations, fs, clock>>

\* GET /result/{angle}
get_result_angle(a) ==
    LET key == DegKey(a)
        arg == [angle |-> a]
    IN  IF key \in DOMAIN results THEN return_cached(arg, key)
        ELSE IF key \in DOMAIN case_dirs
             THEN start_extract("get_result", arg, key, case_dirs[key],
                                FallbackSpeed, DefaultSampleHeight)
        ELSE respond("get_result", arg, 404, "Not found")

\* GET /result
get_result_current ==
    IF current_case # NONE /\ current_case \in DOMAIN results
    THEN return_cached([angle |-> NONE], current_case)
    ELSE respond("get_result", [angle |-> NONE], 404, "No results")

\* POST /resample looking the direction up without the membership test
resample_unchecked(d, height) ==
    LET direction == IF d = NONE THEN current_case ELSE d
        arg       == [direction |-> d, height |-> height]
    IN  IF direction = NONE
        THEN respond("resample", arg, 404, "No case found")
        ELSE IF direction \notin DOMAIN case_dirs
             THEN respond("resample", arg, 500, "KeyError")
        ELSE IF ~fs[case_dirs[direction]].exists
             THEN respond("resample", arg, 404, "Case directory not found")
        ELSE start_extract("resample", arg, direction, case_dirs[direction],
                           IF direction \in DOMAIN results
                           THEN results[direction].wind_speed ELSE FallbackSpeed,
                           height)

\* POST /resample; d = NONE when the body names no direction
resample(d, height) ==
    LET direction == IF d = NONE THEN current_case ELSE d
        arg       == [direction |-> d, height |-> height]
    IN  IF direction = NONE \/ direction \notin DOMAIN case_dirs
        THEN respond("resample", arg, 404, "No case found")
        ELSE IF ~fs[case_dirs[direction]].exists
             THEN respond("resample", arg, 404, "Case directory not found")
        ELSE start_extract("resample", arg, direction, case_dirs[direction],
                           IF direction \in DOMAIN results
                           THEN results[direction].wind_speed ELSE FallbackSpeed,
                           height)

\* the label of the rest of a handler that was suspended
Resumed(kind) == IF kind = "get_result" THEN "get_result_resumed" ELSE "resample_resumed"

\* postProcess has ended for a suspended get_result or resample handler
handler_extracted(tk, outcome) ==
    LET result == extract_result(tk.case_dir, tk.direction, tk.speed, tk.height)
    IN  /\ tk.kind \in {"get_result", "resample"} /\ tk.pc = "postProcess"
        /\ outcome \in ExtractOutcomes(fs[tk.case_dir])
        /\ tasks' = Ended(tk)
        /\ IF outcome = "ok"
           THEN /\ results' = Put(results, tk.direction, result)
                /\ last' = Label(Resumed(tk.kind), NoArg, 200,
                                 [cached |-> FALSE, result |-> result], "none")
           ELSE /\ last' = Label(Resumed(tk.kind), NoArg, 500, [error |-> outcome], "none")
                /\ UNCHANGED results
        /\ UNCHANGED <<status, case_dirs, current_case, current_case_dir,
                       current_iterations, fs, clock>>

\* ------------------------------------------------------------ environment
\* a second of datetime.now() passes.  Spec holds the clock still: all its
\* requests fall into one second (equal timestamps are also what a wall
\* clock set back produces), which is when case names can collide.
tick ==
    /\ clock < MaxClock
    /\ clock' = clock + 1
    /\ last' = Label("tick", NoArg, 0, NoArg, "none")
    /\ UNCHANGED <<status, results, case_dirs, current_case, current_case_dir,
                   current_iterations, tasks, fs>>

Next ==
    \/ \E d \in WindDirections, sp \in WindSpeeds, b \in BuildingInputs, n \in Budgets :
          calculate(d, sp, b, n)
    \/ stop
    \/ cleanup
    \/ get_status
    \/ \E a \in Angles : get_result_angle(a)
    \/ get_result_current
    \/ \E d \in Keys \cup {NONE}, h \in ResampleHeights : resample(d, h)
    \/ \E tk \in InFlight : run_calculation_start(tk)
    \/ \E tk \in InFlight : run_calculation_meshed(tk)
    \/ \E tk \in InFlight : run_calculation_snapped(tk)
    \/ \E tk \in InFlight, n \in LogIters, w \in BOOLEAN : simpleFoam_writes(tk, n, w)
    \/ \E tk \in InFlight : run_calculation_solved(tk)
    \/ \E tk \in InFlight, o \in FailedExtracts \cup {"ok"} :
          run_calculation_extracted(tk, o)
    \/ \E tk \in InFlight, o \in FailedExtracts \cup {"ok"} : handler_extracted(tk, o)

Spec == Init /\ [][Next]_vars

\* --------------------------------------------- the progress calculation
\* the largest "Time = n" the solver is let write in SpecProgress
MaxIter == 45
ProgressBudgets == {1, 13, 45}
ProgressCase == CaseName(0, 0)

\* Two calculations whose case names collide (same second, same whole
\* degree) have both reached their await on simpleFoam: the task with budget
\* a started first, the task with budget b last, so current_iterations = b
\* and the log, truncated by the redirection of the second solver, is empty.
InitProgress ==
    \E a \in ProgressBudgets, b \in ProgressBudgets :
        /\ status = StatusRec("running", 45, <<"CFD...">>)
        /\ results = EmptyDict
        /\ case_dirs = EmptyDict
        /\ current_case = NONE
        /\ current_case_dir = ProgressCase
        /\ current_iterations = b
        /\ tasks = SetToBag({Task("calc", "simpleFoam", 0, ProgressCase, << >>, a, 4, 0)})
                   (+) SetToBag({Task("calc", "simpleFoam", 0, ProgressCase, << >>, b, 4, 0)})
        /\ fs = [c \in CaseNames |->
                    IF c = ProgressCase
                    THEN [exists |-> TRUE, generated |-> TRUE, timeDirs |-> FALSE, log |-> 0]
                    ELSE NoDir]
        /\ clock = 0
        /\ last = Label("init", NoArg, 0, NoArg, "none")

NextProgress ==
    \/ \E tk \in InFlight, n \in 1..MaxIter, w \in BOOLEAN : simpleFoam_writes(tk, n, w)
    \/ get_status
    \/ stop

SpecProgress == InitProgress /\ [][NextProgress]_vars

\* the step just taken is one in which the coroutine tk ran
Ran(tk) == CopiesIn(tk, tasks') < CopiesIn(tk, tasks)

\* C1: the step in which a calculation task passes its last await without
\* an exception stores the result under the wind direction, records the
\* case directory under the same direction, makes the direction the current
\* case, clears the active case directory and sets the run status to
\* completed / 100, all in that one step, touching no other direction.
C1_CompletionIsOneStep ==
    [][ \A tk \in InFlight :
          ( /\ tk.kind = "calc" /\ tk.pc = "postProcess"
            /\ Ran(tk)
            /\ last'.op = "_run_calculation"
            /\ last'.body.outcome # "error" )
          => /\ DOMAIN results' = DOMAIN results \cup {tk.direction}
             /\ results'[tk.direction].wind_direction = tk.direction
             /\ results'[tk.direction].case_dir = tk.case_dir
             /\ \A k \in DOMAIN results \ {tk.direction} : results'[k] = results[k]
             /\ DOMAIN case_dirs' = DOMAIN case_dirs \cup {tk.direction}
             /\ case_dirs'[tk.direction] = tk.case_dir
             /\ \A k \in DOMAIN case_dirs \ {tk.direction} : case_dirs'[k] = case_dirs[k]
             /\ current_case' = tk.direction
             /\ current_case_dir' = NoCase
             /\ status' = StatusRec("completed", 100, <<"Done">>)
             /\ CopiesIn(tk, tasks') = CopiesIn(tk, tasks) - 1
      ]_vars

C1_Witness ==
    /\ last.op = "_run_calculation"
    /\ last.body.outcome = "completed"
    /\ status.status = "completed"
    /\ current_case = last.body.direction
    /\ last.body.direction \in DOMAIN results
    /\ case_dirs[last.body.direction] = last.body.case_dir

\* the exception texts a step of the task can end with
Raised(step) ==
    IF step = "generate" THEN {"No buildings found"}
    ELSE IF step = "simpleFoam" THEN {"FileNotFoundError", "No time directories found"}
    ELSE {"VTK result not found", "No points in result"}

\* C2: a step of a calculation task that ends in an exception sets the run
\* status to error with progress 0 and the exception text as message, clears
\* the active case directory, adds no result and no case directory, leaves
\* the current case alone, ends the task and answers no request (the only
\* answer the caller ever got is the "started" of POST /calculate).
C2_FailureIsCaught ==
    [][ ( /\ last'.op = "_run_calculation"
          /\ last'.body.outcome = "error" )
        => /\ status'.status = "error"
           /\ status'.progress = 0
           /\ \E m \in Raised(last'.body.step) : status'.message = <<m>>
           /\ current_case_dir' = NoCase
           /\ results' = results
           /\ case_dirs' = case_dirs
           /\ current_case' = current_case
           /\ last'.code = 0
           /\ BagCardinality(tasks') = BagCardinality(tasks) - 1
      ]_vars

C2_Witness ==
    /\ last.op = "_run_calculation"
    /\ last.body.outcome = "error"
    /\ last.body.step = "postProcess"
    /\ status.status = "error"
    /\ current_case_dir = NoCase
    /\ last.body.direction \notin DOMAIN results

\* the next segment of a calculation task
TaskStep(tk) ==
    \/ run_calculation_start(tk)
    \/ run_calculation_meshed(tk)
    \/ run_calculation_snapped(tk)
    \/ run_calculation_solved(tk)
    \/ \E o \in FailedExtracts \cup {"ok"} : run_calculation_extracted(tk, o)

\* C3: POST /stop sets the run status to stopped / 0 and changes neither
\* the results, the case directories, the current case, the active case
\* directory nor the tasks in flight; and while the status is stopped every
\* calculation task in flight can still take its next step.
C3_StopOnlySetsStatus ==
    /\ [][ last'.op = "stop"
           => /\ status' = StatusRec("stopped", 0, <<"Stopped">>)
              /\ UNCHANGED <<results, case_dirs, current_case, current_case_dir,
                             tasks, fs>>
         ]_vars
    /\ [](status.status = "stopped"
            => \A tk \in InFlight : tk.kind = "calc" => ENABLED TaskStep(tk))

C3_Witness ==
    /\ last.op = "stop"
    /\ status.status = "stopped"
    /\ \E tk \in InFlight : tk.kind = "calc" /\ tk.pc = "simpleFoam"
    /\ current_case_dir # NoCase

\* C4: a GET /result or GET /result/{direction} that returns a cached
\* result while the run status is completed resets the status to idle / 0 /
\* empty message; no step of a get_result handler changes the run status
\* when it is anything other than completed.
C4_CachedResultConsumesCompleted ==
    [][ /\ ( /\ last'.op = "get_result"
             /\ last'.code = 200
             /\ status.status = "completed" )
           => (last'.body.cached /\ status' = IdleStatus)
        /\ ( /\ last'.op \in {"get_result", "get_result_resumed"}
             /\ status.status # "completed" )
           => status' = status
      ]_vars

C4_Witness ==
    /\ last.op = "get_result"
    /\ last.code = 200
    /\ last.body.cached
    /\ status = IdleStatus
    /\ current_case # NONE

\* 45 + floor(45 * iteration / budget), capped at 89, in exact arithmetic
ExactProgress(iteration, budget) == Min(45 + ((45 * iteration) \div budget), 89)

\* C5 as stated: whenever GET /status refines the progress it answers
\* exactly 45 + floor(45 * iteration / budget) capped at 89, in 45..89, and
\* the iteration fields appear only in such an answer, given while running.
C5_ProgressIsExactFloor ==
    last.op = "get_status"
    => LET b == last.body
       IN  /\ b.has_iteration
              => /\ b.status = "running"
                 /\ b.iteration > 0
                 /\ b.progress = ExactProgress(b.iteration, b.total_iterations)
                 /\ b.progress \in 45..89
           /\ b.status # "running" => ~b.has_iteration

\* C5 amended: the refined progress is in 45..89 and is the exact value or
\* one less, one less only when 45 * iteration is a multiple of the budget
\* (the double product (iteration / budget) * 45 can fall just below that
\* integer); it is refined exactly when the status is running, an active
\* case directory is set and its log holds an iteration, and then the
\* answer carries that iteration and the current budget; an answer given in
\* any other state, or with no iteration logged, carries no iteration
\* fields and repeats the stored progress.
C5_ProgressIsFloorOrOneLess ==
    last.op = "get_status"
    => LET b     == last.body
           exact == 45 + ((45 * b.iteration) \div b.total_iterations)
       IN  /\ b.has_iteration
              <=> /\ status.status = "running"
                  /\ current_case_dir # NoCase
                  /\ fs[current_case_dir].log > 0
           /\ b.has_iteration
              => /\ b.status = "running"
                 /\ b.iteration = fs[current_case_dir].log
                 /\ b.total_iterations = current_iterations
                 /\ b.progress \in 45..89
                 /\ b.progress \in {Min(exact, 89), Min(exact - 1, 89)}
                 /\ b.progress # Min(exact, 89)
                       => (45 * b.iteration) % b.total_iterations = 0
           /\ ~b.has_iteration
              => /\ b.progress = status.progress
                 /\ b.message = status.message

\* the answer for 13 of 45 iterations: 57, where the exact value is 58
C5_Witness ==
    /\ last.op = "get_status"
    /\ last.body.has_iteration
    /\ last.body.iteration = 13
    /\ last.body.total_iterations = 45
    /\ last.body.progress = 57

\* C6 as stated: while a calculation task is in its post-processing step
\* (status running, stored progress 90, the post-processing message), GET
\* /status answers with progress 90 and the post-processing message.
C6_PostProcessingReports90 ==
    ( /\ last.op = "get_status"
      /\ status = StatusRec("running", 90, <<"Post-processing...">>)
      /\ \E tk \in InFlight : tk.kind = "calc" /\ tk.pc = "postProcess" )
    => /\ last.body.progress = 90
       /\ last.body.message = <<"Post-processing...">>

\* C7 as stated: after POST /cleanup the run status is idle, the results,
\* the case directories and the current case are empty, and no active case
\* directory is set.
C7_CleanupResetsAll ==
    last.op = "cleanup"
    => /\ status = IdleStatus
       /\ results = EmptyDict
       /\ case_dirs = EmptyDict
       /\ current_case = NONE
       /\ current_case_dir = NoCase

\* C8: the first step of a calculation whose input has no polygon feature
\* with at least three coordinates ends the task in status error with the
\* message "No buildings found", having written no file into the case
\* directory (it only creates directories), started no process, and added
\* no result and no case directory.
C8_NoBuildingsFailsEarly ==
    [][ \A tk \in InFlight :
          ( /\ tk.kind = "calc" /\ tk.pc = "start"
            /\ \A i \in 1..Len(tk.buildings) :
                  ~(tk.buildings[i].type = "Polygon" /\ tk.buildings[i].ncoords >= 3)
            /\ Ran(tk)
            /\ last'.op = "_run_calculation" )
          => /\ last'.body.outcome = "error"
             /\ last'.spawned = "none"
             /\ status' = StatusRec("error", 0, <<"No buildings found">>)
             /\ \A c \in CaseNames :
                   /\ fs'[c].generated = fs[c].generated
                   /\ fs'[c].log = fs[c].log
                   /\ fs'[c].timeDirs = fs[c].timeDirs
             /\ results' = results
             /\ case_dirs' = case_dirs
             /\ current_case' = current_case
             /\ current_case_dir' = NoCase
             /\ CopiesIn(tk, tasks') = CopiesIn(tk, tasks) - 1
             /\ BagCardinality(tasks') = BagCardinality(tasks) - 1
      ]_vars

C8_Witness ==
    /\ last.op = "_run_calculation"
    /\ last.body.step = "generate"
    /\ last.body.outcome = "error"
    /\ status = StatusRec("error", 0, <<"No buildings found">>)
    /\ fs[last.body.case_dir].exists
    /\ ~fs[last.body.case_dir].generated

\* the direction a resample request is about
ResampleTarget(arg) == IF arg.direction = NONE THEN current_case ELSE arg.direction

\* C9: POST /resample for a direction with no case directory entry, or
\* with no direction while no current case is set, answers 404, starts no
\* extraction and leaves the results, the case directories, the current
\* case, the run status and the tasks in flight unchanged.
C9_ResampleUnknownIs404 ==
    [][ ( /\ last'.op = "resample"
          /\ \/ ResampleTarget(last'.arg) = NONE
             \/ ResampleTarget(last'.arg) \notin DOMAIN case_dirs )
        => /\ last'.code = 404
           /\ last'.spawned = "none"
           /\ UNCHANGED <<results, case_dirs, current_case, current_case_dir,
                          status, tasks, fs>>
      ]_vars

C9_Witness ==
    /\ last.op = "resample"
    /\ last.code = 404
    /\ last.arg.direction # NONE
    /\ last.arg.direction \notin DOMAIN case_dirs
    /\ case_dirs # EmptyDict

\* C10: POST /calculate is accepted whatever the run status: every
\* calculate step answers "started", adds one calculation task to those in
\* flight and changes nothing else, and it can be taken in every state in
\* which fewer than MaxTasks coroutines are in flight.
C10_CalculateIsUnguarded ==
    /\ [][ last'.op = "calculate"
           => /\ last'.code = 200
              /\ last'.body = [status |-> "started"]
              /\ BagCardinality(tasks') = BagCardinality(tasks) + 1
              /\ \E tk \in BagToSet(tasks') :
                    /\ tk.kind = "calc" /\ tk.pc = "start"
                    /\ tk.direction = last'.arg.direction
                    /\ CopiesIn(tk, tasks') = CopiesIn(tk, tasks) + 1
              /\ UNCHANGED <<status, results, case_dirs, current_case,
                             current_case_dir, current_iterations, fs>>
         ]_vars
    /\ [](BagCardinality(tasks) < MaxTasks
            => \A d \in WindDirections, b \in BuildingInputs :
                  ENABLED calculate(d, 4, b, 45))

\* two calculation tasks past their first step while the status is running
C10_Witness ==
    /\ status.status = "running"
    /\ \E t1 \in InFlight :
          /\ t1.kind = "calc" /\ t1.pc \in {"blockMesh", "snappyHexMesh", "simpleFoam"}
          /\ \/ CopiesIn(t1, tasks) = 2
             \/ \E t2 \in InFlight \ {t1} :
                   t2.kind = "calc"
                   /\ t2.pc \in {"blockMesh", "snappyHexMesh", "simpleFoam", "postProcess"}

\* ------------------------------------------- _generate_case: the domain
\* Calls of the pure parts of the server are steps too: last.arg holds the
\* arguments of the call, last.body what it computes; the server's state
\* stays as __init__ leaves it.
Untouched ==
    UNCHANGED <<status, results, case_dirs, current_case, current_case_dir,
                current_iterations, tasks, fs, clock>>
InitCall(op, args) ==
    /\ status = IdleStatus
    /\ results = EmptyDict
    /\ case_dirs = EmptyDict
    /\ current_case = NONE
    /\ current_case_dir = NoCase
    /\ current_iterations = DefaultIterations
    /\ tasks = EmptyBag
    /\ fs = [c \in CaseNames |-> NoDir]
    /\ clock = 0
    /\ \E a \in args : last = Label(op, a, 0, [pending |-> TRUE], "none")

Max(a, b) == IF a >= b THEN a ELSE b
RECURSIVE MaxOf(_, _)
MaxOf(seq, start) == IF seq = << >> THEN start ELSE MaxOf(Tail(seq), Max(start, Head(seq)))
RECURSIVE MinOf(_, _)
MinOf(seq, start) == IF seq = << >> THEN start ELSE MinOf(Tail(seq), Min(start, Head(seq)))

\* an entry of building_list: footprint vertices in metres, height in metres
Building(coords, height) == [coords |-> coords, height |-> height]
Rect(x0, y0, x1, y1) == << <<x0, y0>>, <<x1, y0>>, <<x1, y1>>, <<x0, y1>> >>
\* an L-shaped footprint whose bounding-box centre lies outside it
LShape == << <<0, 0>>, <<30, 0>>, <<30, 10>>, <<10, 10>>, <<10, 30>>, <<0, 30>> >>
DomainHeights == {5, 10, 30}
DomainBuildings ==
    UNION { { << Building(Rect(0, 0, 10, 10), h) >>,
              << Building(Rect(0, 0, 1000, 1000), h) >>,
              << Building(LShape, h) >>,
              << Building(Rect(40, 40, 50, 60), 9), Building(LShape, h) >> }
            : h \in DomainHeights }

\* INLET_FACTOR, OUTLET_FACTOR, LATERAL_FACTOR, HEIGHT_FACTOR, in tenths
INLET_FACTOR == 50
OUTLET_FACTOR == 80
LATERAL_FACTOR == 25
HEIGHT_FACTOR == 50
\* the domain factors of settings, in tenths; the first are the defaults
DomainSettings ==
    { [inletFactor |-> INLET_FACTOR, outletFactor |-> OUTLET_FACTOR,
       lateralFactor |-> LATERAL_FACTOR, heightFactor |-> HEIGHT_FACTOR],
      [inletFactor |-> 30, outletFactor |-> 100, lateralFactor |-> 10, heightFactor |-> 60],
      [inletFactor |-> 0, outletFactor |-> 0, lateralFactor |-> 0, heightFactor |-> 50] }
\* axis-aligned wind directions, in whole degrees
AxisDirections == {0, 90, 180, 270}

\* all_x and all_y of every building
RECURSIVE all_coords(_, _)
all_coords(bl, axis) ==
    IF bl = << >> THEN << >>
    ELSE [i \in 1..Len(Head(bl).coords) |-> Head(bl).coords[i][axis]]
         \o all_coords(Tail(bl), axis)
RECURSIVE heights(_)
heights(bl) == IF bl = << >> THEN << >> ELSE <<Head(bl).height>> \o heights(Tail(bl))

\* max_height starts at 10
MinDomainHeight == 10
max_height(bl) == MaxOf(heights(bl), MinDomainHeight)

\* flow_x = -sin(rad) >= 0 and flow_y = -cos(rad) >= 0 as the doubles decide:
\* for 0, 90, 180, 270 degrees (flow_x, flow_y) is (-0.0, -1.0),
\* (-1.0, -6.1e-17), (-1.2e-16, 1.0), (1.0, 1.8e-16)
flow_x_nonneg(direction) == direction \in {0, 270}
flow_y_nonneg(direction) == direction \in {180, 270}

\* the bounding box (metres) and the domain bounds (decimetres: a factor in
\* tenths times H in metres)
domain(bl, direction, settings) ==
    LET xs == all_coords(bl, 1)
        ys == all_coords(bl, 2)
        bbox_xmin == MinOf(xs, xs[1])
        bbox_xmax == MaxOf(xs, xs[1])
        bbox_ymin == MinOf(ys, ys[1])
        bbox_ymax == MaxOf(ys, ys[1])
        H == max_height(bl)
        inlet_dist == settings.inletFactor * H
        outlet_dist == settings.outletFactor * H
        lateral_dist == settings.lateralFactor * H
        x_min == 10 * bbox_xmin - (IF flow_x_nonneg(direction) THEN inlet_dist ELSE outlet_dist)
        x_max == 10 * bbox_xmax + (IF flow_x_nonneg(direction) THEN outlet_dist ELSE inlet_dist)
        y_min == 10 * bbox_ymin - (IF flow_y_nonneg(direction) THEN inlet_dist ELSE outlet_dist)
        y_max == 10 * bbox_ymax + (IF flow_y_nonneg(direction) THEN outlet_dist ELSE inlet_dist)
    IN  [bbox_xmin |-> bbox_xmin, bbox_xmax |-> bbox_xmax,
         bbox_ymin |-> bbox_ymin, bbox_ymax |-> bbox_ymax, H |-> H,
         x_min |-> x_min - lateral_dist, x_max |-> x_max + lateral_dist,
         y_min |-> y_min - lateral_dist, y_max |-> y_max + lateral_dist,
         z_max |-> settings.heightFactor * H]

\* point_in_poly, for a point given in centimetres and a polygon in metres;
\* px < (xj - xi) * (py - yi) / (yj - yi) + xi is decided exactly, both
\* sides multiplied by yj - yi in metres
point_in_poly(px, py, poly) ==
    LET n == Len(poly)
        crosses(i) ==
            LET j  == IF i = 1 THEN n ELSE i - 1
                xi == poly[i][1]
                yi == poly[i][2]
                xj == poly[j][1]
                yj == poly[j][2]
            IN  /\ (100 * yi > py) # (100 * yj > py)
                /\ IF yj > yi
                   THEN (px - 100 * xi) * (yj - yi) < (xj - xi) * (py - 100 * yi)
                   ELSE (px - 100 * xi) * (yj - yi) > (xj - xi) * (py - 100 * yi)
    IN  Cardinality({i \in 1..n : crosses(i)}) % 2 = 1

\* locationInMesh (loc_x, loc_y), in centimetres: the bounding-box centre,
\* moved 10% in from the domain's minimum corner when a footprint holds it
seed(bl, dom) ==
    LET cx == 50 * (dom.bbox_xmin + dom.bbox_xmax)
        cy == 50 * (dom.bbox_ymin + dom.bbox_ymax)
    IN  IF \E i \in 1..Len(bl) : point_in_poly(cx, cy, bl[i].coords)
        THEN [x |-> 10 * dom.x_min + (dom.x_max - dom.x_min),
              y |-> 10 * dom.y_min + (dom.y_max - dom.y_min), moved |-> TRUE]
        ELSE [x |-> cx, y |-> cy, moved |-> FALSE]

\* _generate_case sizes the domain and places the seed point
generate_case_domain ==
    /\ last.op = "_generate_case" /\ last.code = 0 /\ "pending" \in DOMAIN last.body
    /\ LET a   == last.arg
           dom == domain(a.buildings, a.direction, a.settings)
       IN  last' = Label("_generate_case", a, 0,
                         [domain |-> dom, seed |-> seed(a.buildings, dom)], "none")
    /\ Untouched

DomainCalls ==
    [buildings : DomainBuildings, direction : AxisDirections, settings : DomainSettings]
InitDomain == InitCall("_generate_case", DomainCalls)
NextDomain == generate_case_domain
SpecDomain == InitDomain /\ [][NextDomain]_vars

DomainDone == last.op = "_generate_case" /\ "domain" \in DOMAIN last.body

\* C11 as stated: for an axis-aligned wind direction the domain extends
\* beyond the bounding box by exactly inletFactor*H on the upwind face,
\* outletFactor*H on the downwind face and lateralFactor*H on both faces of
\* the cross-wind axis, and is heightFactor*H high (direction 0: the wind
\* comes from the north, so north is upwind, south downwind, east and west
\* lateral).
C11_AxisAlignedMargins ==
    DomainDone
    => LET d     == last.body.domain
           s     == last.arg.settings
           north == d.y_max - 10 * d.bbox_ymax
           south == 10 * d.bbox_ymin - d.y_min
           east  == d.x_max - 10 * d.bbox_xmax
           west  == 10 * d.bbox_xmin - d.x_min
           dir   == last.arg.direction
           upwind   == CASE dir = 0 -> north [] dir = 90 -> east
                         [] dir = 180 -> south [] OTHER -> west
           downwind == CASE dir = 0 -> south [] dir = 90 -> west
                         [] dir = 180 -> north [] OTHER -> east
           lateral  == IF dir \in {0, 180} THEN <<east, west>> ELSE <<north, south>>
       IN  /\ upwind = s.inletFactor * d.H
           /\ downwind = s.outletFactor * d.H
           /\ lateral[1] = s.lateralFactor * d.H
           /\ lateral[2] = s.lateralFactor * d.H
           /\ d.z_max = s.heightFactor * d.H

\* C12 as stated: the seed point written to the case lies outside every
\* building footprint.
C12_SeedOutsideFootprints ==
    DomainDone
    => \A i \in 1..Len(last.arg.buildings) :
          ~point_in_poly(last.body.seed.x, last.body.seed.y, last.arg.buildings[i].coords)

\* ---------------------------------------------------------- _write_stl
\* footprints as _write_stl receives them, vertices in metres
Square == Rect(0, 0, 10, 10)
SquareClockwise == << <<0, 0>>, <<0, 10>>, <<10, 10>>, <<10, 0>> >>
Triangle == << <<0, 0>>, <<12, 0>>, <<0, 9>> >>
TriangleClockwise == << <<0, 0>>, <<0, 9>>, <<12, 0>> >>
\* a square with one vertex given twice in a row: a degenerate edge
SquareRepeated == << <<0, 0>>, <<10, 0>>, <<10, 0>>, <<10, 10>>, <<0, 10>> >>
\* a simple concave quadrilateral whose vertex mean is its vertex (0, 0)
Dart == << <<-3, -1>>, <<3, -1>>, <<0, 2>>, <<0, 0>> >>
Pentagon == << <<0, 0>>, <<10, 0>>, <<15, 10>>, <<5, 15>>, <<-5, 10>> >>
OpenFootprints ==
    {Square, SquareClockwise, Triangle, TriangleClockwise, SquareRepeated,
     Dart, Pentagon, LShape}
\* each footprint as given, and with its first vertex repeated at the end
StlFootprints == OpenFootprints \cup {Append(f, f[1]) : f \in OpenFootprints}
StlHeights == {3, 9, 10, 25}

\* coords with the first vertex appended unless the ring is closed already
close_ring(coords) ==
    IF coords[1] # coords[Len(coords)] THEN Append(coords, coords[1]) ELSE coords

\* length < 0.001 for integer dx, dy: sqrt(dx*dx + dy*dy) is 0 or at least 1
degenerate(dx, dy) == dx * dx + dy * dy = 0

\* a facet: which loop emitted it for which edge, the direction of its normal
\* and its three vertices in order
Facet(kind, edge, normal, v1, v2, v3) ==
    [kind |-> kind, edge |-> edge, normal |-> normal, v |-> <<v1, v2, v3>>]

RECURSIVE SumTo(_, _, _)
SumTo(coords, axis, m) == IF m = 0 THEN 0 ELSE coords[m][axis] + SumTo(coords, axis, m - 1)

\* the lines written by the passes of a loop, one after another
RECURSIVE Concat(_)
Concat(seqs) == IF seqs = << >> THEN << >> ELSE Head(seqs) \o Concat(Tail(seqs))

\* the facets _write_stl emits for one building.  With m ring edges, x and y
\* are held in units of 1/m metre, so that the fan centre (cx, cy), the mean
\* of the m ring vertices, is the integer pair of the coordinate sums; the
\* normal of a wall is (dy, -dx, 0) divided by the positive edge length, of
\* which the direction (dy, -dx, 0) is kept.
write_stl(b) ==
    LET coords == close_ring(b.coords)
        m      == Len(coords) - 1
        h      == b.height
        P(i, z) == <<m * coords[i][1], m * coords[i][2], z>>
        C(z)    == <<SumTo(coords, 1, m), SumTo(coords, 2, m), z>>
        walls(i) ==
            LET dx == coords[i + 1][1] - coords[i][1]
                dy == coords[i + 1][2] - coords[i][2]
            IN  IF degenerate(dx, dy) THEN << >>
                ELSE << Facet("wall", i, <<dy, -dx, 0>>, P(i, 0), P(i + 1, 0), P(i + 1, h)),
                        Facet("wall", i, <<dy, -dx, 0>>, P(i, 0), P(i + 1, h), P(i, h)) >>
        fans(i) ==
            << Facet("roof", i, <<0, 0, 1>>, C(h), P(i, h), P(i + 1, h)),
               Facet("floor", i, <<0, 0, -1>>, C(0), P(i + 1, 0), P(i, 0)) >>
    IN  Concat([i \in 1..m |-> walls(i)])
        \o (IF Len(coords) >= 4 THEN Concat([i \in 1..m |-> fans(i)]) ELSE << >>)

\* _write_stl is called for one building
write_stl_call ==
    /\ last.op = "_write_stl" /\ "pending" \in DOMAIN last.body
    /\ last' = Label("_write_stl", last.arg, 0, [facets |-> write_stl(last.arg)], "none")
    /\ Untouched

StlCalls == { Building(f, h) : f \in StlFootprints, h \in StlHeights }
InitStl == InitCall("_write_stl", StlCalls)
NextStl == write_stl_call
SpecStl == InitStl /\ [][NextStl]_vars

StlDone == last.op = "_write_stl" /\ "facets" \in DOMAIN last.body

\* the ring edges of a footprint that are degenerate
DegenerateEdges(coords) ==
    LET ring == close_ring(coords)
    IN  { i \in 1..(Len(ring) - 1) :
            degenerate(ring[i + 1][1] - ring[i][1], ring[i + 1][2] - ring[i][2]) }
DistinctVertices(coords) == { coords[i] : i \in 1..Len(coords) }

\* the three undirected edges of a facet
FacetEdges(f) == << {f.v[1], f.v[2]}, {f.v[2], f.v[3]}, {f.v[3], f.v[1]} >>

\* C13 as stated: for a footprint with at least 3 distinct vertices and no
\* degenerate edge, given closed or unclosed, 4 facets are emitted per
\* footprint edge and every undirected edge of the facets is shared by
\* exactly two of them.
C13_ClosedSurface ==
    ( /\ StlDone
      /\ Cardinality(DistinctVertices(last.arg.coords)) >= 3
      /\ DegenerateEdges(last.arg.coords) = {} )
    => LET fs_ == last.body.facets
           m   == Len(close_ring(last.arg.coords)) - 1
           uses(e) == { <<t, s>> \in (1..Len(fs_)) \X (1..3) : FacetEdges(fs_[t])[s] = e }
       IN  /\ Len(fs_) = 4 * m
           /\ \A t \in 1..Len(fs_), s \in 1..3 :
                 Cardinality(uses(FacetEdges(fs_[t])[s])) = 2

\* C16 as stated: for a degenerate footprint edge no wall, roof-fan or
\* floor-fan facet is emitted.
C16_DegenerateEdgeSkipped ==
    StlDone
    => \A i \in DegenerateEdges(last.arg.coords) :
          \A t \in 1..Len(last.body.facets) : last.body.facets[t].edge # i

\* the footprint turns the same way at every vertex
Convex(coords) ==
    LET ring == close_ring(coords)
        m    == Len(ring) - 1
        pt(i) == ring[((i - 1) % m) + 1]
        cross(i) == (pt(i + 1)[1] - pt(i)[1]) * (pt(i + 2)[2] - pt(i + 1)[2])
                    - (pt(i + 1)[2] - pt(i)[2]) * (pt(i + 2)[1] - pt(i + 1)[1])
    IN  \/ \A i \in 1..m : cross(i) > 0
        \/ \A i \in 1..m : cross(i) < 0

\* C17 as stated: for a convex footprint, clockwise or counter-clockwise,
\* the normal of every wall facet has a positive dot product with the
\* vector from the polygon centroid (the vertex mean) to the edge midpoint.
C17_WallNormalsPointOutward ==
    (StlDone /\ Convex(last.arg.coords))
    => LET ring == close_ring(last.arg.coords)
           m    == Len(ring) - 1
           sx   == SumTo(ring, 1, m)
           sy   == SumTo(ring, 2, m)
       IN  \A t \in 1..Len(last.body.facets) :
              LET f == last.body.facets[t]
                  i == f.edge
                  \* 2m * (midpoint - centroid)
                  mx == m * (ring[i][1] + ring[i + 1][1]) - 2 * sx
                  my == m * (ring[i][2] + ring[i + 1][2]) - 2 * sy
              IN  f.kind = "wall" => f.normal[1] * mx + f.normal[2] * my > 0

\* ------------------------------------------ _extract_results: the grid
\* Lengths of this section are in half metres, so that a sample at x.5 m has
\* integer coordinates; speeds and velocity components are in cm/s.

\* spacing = 5.0
GRID_SPACING == 10
\* the least and the largest number of grid columns and of grid rows
MIN_GRID == 10
MAX_GRID == 200

\* int(a / b) for b > 0: truncation towards zero
TruncDiv(a, b) == IF a >= 0 THEN a \div b ELSE -((-a) \div b)

\* nx, ny and the final spacing (a fraction num/den) for a sampling window
grid_size(x_min, x_max, y_min, y_max) ==
    LET nx == Max(MIN_GRID, TruncDiv(x_max - x_min, GRID_SPACING) + 1)
        ny == Max(MIN_GRID, TruncDiv(y_max - y_min, GRID_SPACING) + 1)
    IN  [nx |-> IF nx > MAX_GRID THEN MAX_GRID ELSE nx,
         ny |-> IF ny > MAX_GRID THEN MAX_GRID ELSE ny,
         spacing |-> IF nx > MAX_GRID
                     THEN [num |-> x_max - x_min, den |-> MAX_GRID - 1]
                     ELSE [num |-> GRID_SPACING, den |-> 1]]

\* the sizing step of _extract_results for a window
grid_size_call ==
    /\ last.op = "grid_size" /\ "pending" \in DOMAIN last.body
    /\ last' = Label("grid_size", last.arg, 0,
                     grid_size(last.arg.x_min, last.arg.x_max,
                               last.arg.y_min, last.arg.y_max), "none")
    /\ Untouched

\* widths and depths of sampling windows: 22.5 m to 1500 m
GridExtents == {45, 90, 1000, 1990, 1999, 2000, 2010, 3000}
GridOrigins == {0, -40}
GridCalls ==
    { [x_min |-> o, x_max |-> o + w, y_min |-> o, y_max |-> o + d] :
        o \in GridOrigins, w \in GridExtents, d \in GridExtents }
InitGrid == InitCall("grid_size", GridCalls)
NextGrid == grid_size_call
SpecGrid == InitGrid /\ [][NextGrid]_vars

GridDone == last.op = "grid_size" /\ "nx" \in DOMAIN last.body
Abs(a) == IF a >= 0 THEN a ELSE -a

\* C18 as stated: when the default spacing would give more than 200
\* columns, the column count is 200 and the final spacing is not larger than
\* the default 5.0; and whenever the column or the row count is clamped to
\* 200, origin + (n - 1) * spacing is within one spacing of the window's
\* maximum edge in x and in y.
C18_ClampedGridSpansWindow ==
    GridDone
    => LET a  == last.arg
           g  == last.body
           w  == a.x_max - a.x_min
           d  == a.y_max - a.y_min
           s  == g.spacing
           wide == (w \div GRID_SPACING) + 1 > MAX_GRID
           deep == (d \div GRID_SPACING) + 1 > MAX_GRID
       IN  /\ wide => (g.nx = MAX_GRID /\ s.num <= GRID_SPACING * s.den)
           /\ (wide \/ deep)
              => /\ Abs(w * s.den - (g.nx - 1) * s.num) <= s.num
                 /\ Abs(d * s.den - (g.ny - 1) * s.num) <= s.num

\* ---------------------------------------- _extract_results: resampling
\* a scattered sample of _parse_vtk
Sample(x, y, speed, vx, vy) == [x |-> x, y |-> y, speed |-> speed, vx |-> vx, vy |-> vy]
\* two samples half a metre either side of the grid node (0, 0), one on the
\* node (5 m, 5 m), two elsewhere in the window, one 100 m outside it
SamplePool ==
    { Sample(-1, 0, 300, 300, 0), Sample(1, 0, 500, 0, 500),
      Sample(10, 10, 250, 200, 150), Sample(21, -7, 400, 400, 0),
      Sample(-33, 18, 1, 1, 0), Sample(200, 200, 700, 0, 700) }
\* the lists of one or two different samples
SampleLists ==
    { <<p>> : p \in SamplePool }
    \cup { pq \in SamplePool \X SamplePool : pq[1] # pq[2] }
\* metadata.json: the buildings' bounding box and max_height (metres)
ResampleBbox == [xmin |-> 0, xmax |-> 2, ymin |-> 0, ymax |-> 2]
ResampleMaxHeight == 10
\* the requested wind speed, in cm/s
ResampleSpeeds == {400, 500}

\* the window centred on the buildings: the bounding box with margin 2 * H
window(bbox, H) ==
    [x_min |-> 2 * (bbox.xmin - 2 * H), x_max |-> 2 * (bbox.xmax + 2 * H),
     y_min |-> 2 * (bbox.ymin - 2 * H), y_max |-> 2 * (bbox.ymax + 2 * H)]

\* the first of the candidates at the least distance: "dist < best_dist"
\* keeps the earlier one of two equally near candidates
\* with the node at (X, Y) and coordinates multiplied by den
node_dist(p, X, Y, den) ==
    (p.x * den - X) * (p.x * den - X) + (p.y * den - Y) * (p.y * den - Y)

RECURSIVE nearest(_, _, _, _, _)
nearest(cands, X, Y, den, best) ==
    IF cands = << >> THEN best
    ELSE nearest(Tail(cands), X, Y, den,
                 IF best = << >>
                    \/ node_dist(Head(cands), X, Y, den) < node_dist(best[1], X, Y, den)
                 THEN <<Head(cands)>> ELSE best)

\* the value of one grid node: the samples of the 3 x 3 bucket cells around
\* the node are visited cell by cell, within a cell in list order.  With
\* spacing s = num/den, cell_size = 0.6 * s, so int(x / cell_size) is
\* int(5 * den * x / (3 * num)); coordinates are compared multiplied by den.
node_value(points, win, s, ix, iy) ==
    LET X == win.x_min * s.den + ix * s.num
        Y == win.y_min * s.den + iy * s.num
        cell(v) == TruncDiv(5 * v, 3 * s.num)
        cx == cell(X)
        cy == cell(Y)
        in_cell(dcx, dcy) ==
            SelectSeq(points, LAMBDA p : /\ cell(p.x * s.den) = cx + dcx
                                         /\ cell(p.y * s.den) = cy + dcy)
        col(dcx) == in_cell(dcx, -1) \o in_cell(dcx, 0) \o in_cell(dcx, 1)
        cands == col(-1) \o col(0) \o col(1)
        dist(p) == node_dist(p, X, Y, s.den)
        best == nearest(cands, X, Y, s.den, << >>)
    IN  IF best # << >> /\ 4 * dist(best[1]) < 9 * s.num * s.num
        THEN [speed |-> best[1].speed, vx |-> best[1].vx, vy |-> best[1].vy]
        ELSE [speed |-> 0, vx |-> 0, vy |-> 0]

\* grid values, vx and vy, row by row
resample_grid(points, win) ==
    LET g == grid_size(win.x_min, win.x_max, win.y_min, win.y_max)
    IN  [iy \in 0..(g.ny - 1) |->
            [ix \in 0..(g.nx - 1) |-> node_value(points, win, g.spacing, ix, iy)]]

\* the speeds of the grid above 0.01 m/s
all_speeds(grid) ==
    { grid[iy][ix].speed : iy \in DOMAIN grid, ix \in DOMAIN grid[0] } \ {0, 1}

\* stats of the result
grid_stats(grid, points, speed) ==
    LET vs == all_speeds(grid)
    IN  [min_speed |-> IF vs = {} THEN 0 ELSE CHOOSE v \in vs : \A u \in vs : v <= u,
         max_speed |-> IF vs = {} THEN speed ELSE CHOOSE v \in vs : \A u \in vs : v >= u,
         points |-> Len(points)]

\* the part of _extract_results after _parse_vtk
extract_grid(points, speed) ==
    LET grid == resample_grid(points, window(ResampleBbox, ResampleMaxHeight))
    IN  [grid |-> grid, stats |-> grid_stats(grid, points, speed)]

extract_grid_call ==
    /\ last.op = "_extract_results" /\ "pending" \in DOMAIN last.body
    /\ last' = Label("_extract_results", last.arg, 0,
                     extract_grid(last.arg.points, last.arg.speed), "none")
    /\ Untouched

ResampleCalls == [points : SampleLists, speed : ResampleSpeeds]
InitResample == InitCall("_extract_results", ResampleCalls)
NextResample == extract_grid_call
SpecResample == InitResample /\ [][NextResample]_vars

ResampleDone == last.op = "_extract_results" /\ "grid" \in DOMAIN last.body

\* C14 as stated: every permutation of the sample list yields the same grid
\* (values, vx and vy at every node).
C14_GridIgnoresSampleOrder ==
    ResampleDone
    => \A perm \in Permutations(1..Len(last.arg.points)) :
          resample_grid([i \in 1..Len(last.arg.points) |-> last.arg.points[perm[i]]],
                        window(ResampleBbox, ResampleMaxHeight))
          = last.body.grid

\* the speed values of a grid
grid_values(grid) == [iy \in DOMAIN grid |-> [ix \in DOMAIN grid[iy] |-> grid[iy][ix].speed]]

\* C15 as stated: two extractions that yield the same grid values report
\* the same stats (min_speed, max_speed, points), whatever their raw samples
\* and their requested wind speed.
C15_StatsDependOnGridOnly ==
    ResampleDone
    => \A other \in ResampleCalls :
          LET r == extract_grid(other.points, other.speed)
          IN  grid_values(r.grid) = grid_values(last.body.grid)
              => r.stats = last.body.stats

\* ------------------------------------------------- stopped as a final state
\* the steps that begin a new run or clear the server: POST /cleanup, and the
\* first segment of a calculation task, which is where a POST /calculate
\* first writes the run status
BeginsRunOrCleans ==
    \/ last'.op = "cleanup"
    \/ last'.op = "_run_calculation" /\ last'.body.step = "generate"

\* C20: once POST /stop has set the run status to stopped, the status stays
\* stopped until the next calculation starts or POST /cleanup is served; the
\* later segments of the calculation that was stopped never replace it by
\* completed or error
C20_StoppedIsFinal ==
    [][ (status.status = "stopped" /\ status'.status # "stopped")
            => BeginsRunOrCleans ]_vars

\* ------------------------------------------ keys of the case record
\* wind.direction of the requests of SpecKeys: 45 and 45.5 degrees, whose
\* case directories both end in _45deg
KeyDirections == {450, 455}

\* the directories _restore_existing_cases accepts for a number of degrees:
\* named ..._{deg}deg and holding a numbered output-time subdirectory
Restorable(deg) ==
    {c \in CaseNames : c[2] = deg /\ fs[c].exists /\ fs[c].timeDirs}
RestoredDegrees == {c[2] : c \in {x \in CaseNames : Restorable(x[2]) # {}}}

\* the server process is started again: __init__, whose
\* _restore_existing_cases records under int(degrees) one of the accepted
\* directories of each number of degrees (the last one os.listdir yields).
\* The tasks of the old process are gone; the directories stay.
restart ==
    /\ status' = IdleStatus
    /\ results' = EmptyDict
    /\ \E f \in [{DegKey(deg) : deg \in RestoredDegrees} -> CaseNames] :
          /\ \A k \in DOMAIN f : f[k] \in Restorable(IntDeg(k))
          /\ case_dirs' = f
    /\ current_case' = NONE
    /\ current_case_dir' = NoCase
    /\ current_iterations' = DefaultIterations
    /\ tasks' = EmptyBag
    /\ last' = Label("restart", NoArg, 0,
                     [restored |-> Cardinality(RestoredDegrees)], "none")
    /\ UNCHANGED <<fs, clock>>

\* calculations, restarts, resamples and cleanups
NextKeys ==
    \/ \E d \in KeyDirections, sp \in WindSpeeds, b \in BuildingInputs, n \in Budgets :
          calculate(d, sp, b, n)
    \/ restart
    \/ cleanup
    \/ \E d \in KeyDirections \cup {NONE}, h \in ResampleHeights : resample(d, h)
    \/ \E tk \in InFlight : run_calculation_start(tk)
    \/ \E tk \in InFlight : run_calculation_meshed(tk)
    \/ \E tk \in InFlight : run_calculation_snapped(tk)
    \/ \E tk \in InFlight, n \in LogIters, w \in BOOLEAN : simpleFoam_writes(tk, n, w)
    \/ \E tk \in InFlight : run_calculation_solved(tk)
    \/ \E tk \in InFlight, o \in FailedExtracts \cup {"ok"} :
          run_calculation_extracted(tk, o)
    \/ \E tk \in InFlight, o \in FailedExtracts \cup {"ok"} : handler_extracted(tk, o)

SpecKeys == Init /\ [][NextKeys]_vars

\* C19: every key of the case record and of the result cache is a whole
\* number of degrees, and the directory recorded under key k is named
\* ..._{k}deg, so a calculation is stored under the key the startup scan
\* restores it under, also when it was requested for 45.5 degrees
C19_KeysAreWholeDegrees ==
    /\ \A k \in (DOMAIN case_dirs) \cup (DOMAIN results) : k % 10 = 0
    /\ \A k \in DOMAIN case_dirs : DegKey(case_dirs[k][2]) = k

\* ------------------------------------------- agreement of the status fields
\* C21: in every reachable state the fields of the run status agree: status
\* completed comes with progress 100, and status idle, error or stopped with
\* progress 0; the progress and message a task in flight writes never land
\* on a run status that is not running
C21_StatusFieldsAgree ==
    /\ status.status = "completed" => status.progress = 100
    /\ status.status \in {"idle", "error", "stopped"} => status.progress = 0

\* ------------------------------------------- result cache and case record
\* the wind direction of the requests of SpecCleanup
CleanupDirections == {0}

\* calculations, resamples and result requests, POST /cleanup at any moment,
\* a restart of the server (after which a recorded case has no cached result
\* and GET /result/{angle} extracts on demand), and postProcess writing its
\* output after the case directory was removed
NextCleanup ==
    \/ \E d \in CleanupDirections, sp \in WindSpeeds, b \in BuildingInputs, n \in Budgets :
          calculate(d, sp, b, n)
    \/ cleanup
    \/ restart
    \/ \E d \in CleanupDirections : get_result_angle(IntDeg(d))
    \/ \E d \in CleanupDirections \cup {NONE}, h \in ResampleHeights : resample(d, h)
    \/ \E tk \in InFlight : run_calculation_start(tk)
    \/ \E tk \in InFlight : run_calculation_meshed(tk)
    \/ \E tk \in InFlight : run_calculation_snapped(tk)
    \/ \E tk \in InFlight, n \in LogIters, w \in BOOLEAN : simpleFoam_writes(tk, n, w)
    \/ \E tk \in InFlight : run_calculation_solved(tk)
    \/ \E tk \in InFlight : postProcess_writes(tk)
    \/ \E tk \in InFlight, o \in FailedExtracts \cup {"ok"} :
          run_calculation_extracted(tk, o)
    \/ \E tk \in InFlight, o \in FailedExtracts \cup {"ok"} : handler_extracted(tk, o)

SpecCleanup == Init /\ [][NextCleanup]_vars

\* C22: in every reachable state every direction with a cached result has a
\* recorded case directory, also when POST /cleanup is served while a
\* calculation task, a resample or an extracting GET /result/{angle} is
\* suspended on an external process
C22_ResultsHaveCaseDirs ==
    DOMAIN results \subseteq DOMAIN case_dirs

\* ------------------------------------------- completed and the current case
\* GET /result without a direction
ResultOfCurrent == last'.op = "get_result" /\ last'.arg = [angle |-> NONE]

\* C23: whenever the run status is completed the current case is set and
\* the result cache holds its result, so GET /result without a direction,
\* served while the status reads completed, answers 200 with that result
\* and never 404, whatever stop, cleanup, resample and a second calculation
\* did in between
C23_CompletedHasResult ==
    /\ [](status.status = "completed"
            => current_case # NONE /\ current_case \in DOMAIN results)
    /\ [][ (status.status = "completed" /\ ResultOfCurrent)
              => /\ last'.code = 200
                 /\ last'.body = [cached |-> TRUE, result |-> results[current_case]] ]_vars

\* a calculation has completed while another task is still in flight
C23_Witness ==
    /\ status.status = "completed"
    /\ last.op = "_run_calculation" /\ last.body.outcome = "completed"
    /\ current_case = last.body.direction
    /\ \E tk \in InFlight : tk.kind = "calc" /\ tk.pc # "start"

\* ------------------------------------------- termination of the task
\* the wind direction of the requests of SpecLive
LiveDirections == {0}

\* every calculation task SpecLive can hold, at each of its suspension points
CalcTaskValues ==
    { Task("calc", "start", d, NoCase, b, n, sp, 0) :
        d \in LiveDirections, b \in BuildingInputs, n \in Budgets, sp \in WindSpeeds }
    \cup
    { Task("calc", pc, d, CaseName(0, d), << >>, n, sp, 0) :
        pc \in {"blockMesh", "snappyHexMesh", "simpleFoam"},
        d \in LiveDirections, n \in Budgets, sp \in WindSpeeds }
    \cup
    { Task("calc", "postProcess", d, CaseName(0, d), << >>, n, sp, DefaultSampleHeight) :
        d \in LiveDirections, n \in Budgets, sp \in WindSpeeds }

\* calculation tasks in flight, created but not yet run included
CalcCount(bag) ==
    LET calcs == {tk \in BagToSet(bag) : tk.kind = "calc"}
        RECURSIVE Sum(_)
        Sum(S) == IF S = {} THEN 0
                  ELSE LET tk == CHOOSE x \in S : TRUE
                       IN  CopiesIn(tk, bag) + Sum(S \ {tk})
    IN  Sum(calcs)

NextLive ==
    \/ \E d \in LiveDirections, sp \in WindSpeeds, b \in BuildingInputs, n \in Budgets :
          calculate(d, sp, b, n)
    \/ stop
    \/ cleanup
    \/ get_result_current
    \/ \E tk \in InFlight : run_calculation_start(tk)
    \/ \E tk \in InFlight : run_calculation_meshed(tk)
    \/ \E tk \in InFlight : run_calculation_snapped(tk)
    \/ \E tk \in InFlight, n \in LogIters, w \in BOOLEAN : simpleFoam_writes(tk, n, w)
    \/ \E tk \in InFlight : run_calculation_solved(tk)
    \/ \E tk \in InFlight, o \in FailedExtracts \cup {"ok"} :
          run_calculation_extracted(tk, o)

\* the event loop runs a task that create_task made ready, and every
\* external process ends, so the await on it returns and the task runs
\* its next segment
TaskFairness ==
    \A tk \in CalcTaskValues :
        /\ WF_vars(run_calculation_start(tk))
        /\ WF_vars(run_calculation_meshed(tk))
        /\ WF_vars(run_calculation_snapped(tk))
        /\ WF_vars(run_calculation_solved(tk))
        /\ WF_vars(\E o \in FailedExtracts \cup {"ok"} : run_calculation_extracted(tk, o))

SpecLive == Init /\ [][NextLive]_vars /\ TaskFairness

\* the last segment of a calculation task for the direction of tk
EndOf(tk) ==
    /\ last.op = "_run_calculation"
    /\ last.body.outcome \in {"completed", "error"}
    /\ last.body.direction = tk.direction

\* C24: when every external process ends, every calculation task ends (and
\* once POST /calculate is no longer requested no task stays in flight);
\* the segment that ends a task writes status completed or error; while no
\* calculation task is in flight the status is never running; and the number
\* of tasks in flight grows only by a POST /calculate
C24_TasksTerminate ==
    /\ \A tk \in CalcTaskValues : (tk \in InFlight) ~> EndOf(tk)
    /\ <>[][last'.op # "calculate"]_vars => <>[](CalcCount(tasks) = 0)
    /\ [][ CalcCount(tasks') < CalcCount(tasks)
             => /\ last'.op = "_run_calculation"
                /\ status'.status \in {"completed", "error"} ]_vars
    /\ [](CalcCount(tasks) = 0 => status.status # "running")
    /\ [][ CalcCount(tasks') > CalcCount(tasks) => last'.op = "calculate" ]_vars

\* a task has run to its last segment and nothing is left in flight
C24_Witness ==
    /\ tasks = EmptyBag
    /\ last.op = "_run_calculation" /\ last.body.outcome \in {"completed", "error"}
    /\ last.body.step = "postProcess"
    /\ status.status \in {"completed", "error"}

====
